---- MODULE Spec2Model ----
(***************************************************************************)
(* Listing lifecycle of the marketplace bot, in its two variants:          *)
(*   "php": FacebookBotWithPHP     (src/main.py,    table listings)        *)
(*   "ai" : IntelligentFacebookBot (src/scanner.py, table ai_listings)     *)
(* One behaviour is a sequence of runs (run_bot / run_ai_bot) of one       *)
(* variant against its SQLite database, which outlives each run.           *)
(***************************************************************************)
EXTENDS Integers, Sequences, FiniteSets, TLC

\* ------------------------------------------------------------------ bounds
MaxItems == 2       \* distinct item ids the marketplace page can show
MaxUI == 2          \* anchors returned by one find_elements enumeration
MaxTime == 1        \* last value of the CURRENT_TIMESTAMP clock
MaxCandidates == 2  \* selectors in the list of one element resolution

Items == 1..MaxItems
Variants == {"php", "ai"}

\* --------------------------------------------------------------- constants
login_max_attempts == 3     \* retry_strategies['login']['max_attempts']
login_backoff == 10         \* retry_strategies['login']['backoff']
relogin_wait_time == 5      \* make_decision: relogin data wait_time
listing_max_attempts == 2   \* retry_strategies['listing']['max_attempts']
error_index_threshold == 2  \* process_listings_cautious: `if i > 2`
confidence_threshold_num == 6    \* 0.6 as confidence_threshold_num / _den
confidence_threshold_den == 10
percent == 100              \* success_rate scale factor

VARIABLES
    variant,            \* which program runs against its database
    pc,                 \* position of the run
    driver,             \* self.driver: "none" | "live" | "quit"
    quit_count,         \* driver.quit() calls of this run
    result,             \* "none" | "Done" | "Aborted"
    now,                \* CURRENT_TIMESTAMP
    listings,           \* table listings    (main.py):    item_id -> row
    ai_listings,        \* table ai_listings (scanner.py): item_id -> row
    attempt,            \* intelligent_login: loop variable attempt
    op_calls,           \* intelligent_login: attempts started
    sleeps,             \* intelligent_login: backoff sleeps taken
    last_outcome,       \* intelligent_login: how the last attempt ended
    last_verify,        \* verify_login_success: last indicators and verdict
    login_ret,          \* return value of login / intelligent_login
    db_listings,        \* process_listings: rows still to process
    ui_queue,           \* anchors of the enumeration not yet visited
    collected,          \* collected_listings / listings gathered so far
    success_count,      \* process_listings: success_count
    total_count,        \* process_listings: total_count
    load_all_pending,   \* every row of the table was pending at load time
    entered,            \* item ids handed to make_listing_public* this run
    stats,              \* result of get_stats / generate_ai_report
    last_upsert,        \* last add_listing_to_db / save_listing_to_ai_db call
    last_listing,       \* last make_listing_public* call of the running loop
    last_update,        \* store interface: last status update called directly
    page,               \* element resolution: what the browser shows
    found               \* element resolution: what the finder returned

vars == << variant, pc, driver, quit_count, result, now, listings,
           ai_listings, attempt, op_calls, sleeps, last_outcome, last_verify,
           login_ret, db_listings, ui_queue, collected, success_count,
           total_count, load_all_pending, entered, stats, last_upsert,
           last_listing, last_update, page, found >>

NoRow == [status |-> "absent"]
NoStats == [kind |-> "none"]
NoVerify == [kind |-> "none"]
NoUpsert == [kind |-> "none"]
NoListing == [kind |-> "none"]
NoUpdate == [kind |-> "none"]
NoPage == [kind |-> "none"]
NotCalled == [kind |-> "not_called"]
EmptyTable == [i \in {} |-> NoRow]

\* -------------------------------------------------------- persistence store
\* Row a plain INSERT creates: the column defaults of CREATE TABLE listings.
NewListingRow(t) ==
    [status |-> "pending", is_public |-> FALSE, is_visible |-> FALSE,
     created_at |-> t, updated_at |-> t]

\* Row a plain INSERT creates: the column defaults of CREATE TABLE ai_listings.
NewAiRow(t) == [status |-> "pending", created_at |-> t, updated_at |-> t]

\* INSERT OR IGNORE INTO listings: a row with that item_id is left as it is.
add_listing_to_db(tbl, item_id, t) ==
    IF item_id \in DOMAIN tbl
    THEN tbl
    ELSE (item_id :> NewListingRow(t)) @@ tbl

\* INSERT OR REPLACE INTO ai_listings: a row with that item_id is deleted and
\* a new one inserted, its unnamed columns taking their defaults.
save_listing_to_ai_db(tbl, item_id, t) ==
    (item_id :> NewAiRow(t)) @@ tbl

\* UPDATE listings SET <updates>, updated_at = CURRENT_TIMESTAMP WHERE item_id = ?
update_listing_in_db(tbl, item_id, updates, t) ==
    [i \in DOMAIN tbl |->
        IF i = item_id
        THEN [tbl[i] EXCEPT !.status = updates.status,
                            !.is_public = updates.is_public,
                            !.is_visible = updates.is_visible,
                            !.updated_at = t]
        ELSE tbl[i]]

update_listing_status_NoWhere(tbl, item_id, status, t) ==
    [i \in DOMAIN tbl |-> [tbl[i] EXCEPT !.status = status, !.updated_at = t]]

\* UPDATE ai_listings SET status = ?, ..., updated_at = CURRENT_TIMESTAMP WHERE item_id = ?
update_listing_status(tbl, item_id, status, t) ==
    [i \in DOMAIN tbl |->
        IF i = item_id
        THEN [tbl[i] EXCEPT !.status = status, !.updated_at = t]
        ELSE tbl[i]]

\* WHERE status = 'pending' OR is_public = 0
SelectedByQuery(row) == row.status = "pending" \/ ~row.is_public

\* ORDER BY created_at DESC
OrderedByCreatedDesc(seq, tbl) ==
    \A a, b \in 1..Len(seq) :
        a < b => tbl[seq[a]].created_at >= tbl[seq[b]].created_at

OrderingsOf(S) ==
    {seq \in [1..Cardinality(S) -> S] :
        \A a, b \in 1..Cardinality(S) : a # b => seq[a] # seq[b]}

\* The result sets fetchall() can return; rows with equal created_at come in
\* an order SQLite does not fix.
get_listings_from_db(tbl) ==
    {seq \in OrderingsOf({i \in DOMAIN tbl : SelectedByQuery(tbl[i])}) :
        OrderedByCreatedDesc(seq, tbl)}

\* Variant of SuccessRate that leaves out the factor 100.
SuccessRate_Unscaled(public, total) ==
    IF total > 0
    THEN [num |-> public, den |-> total]
    ELSE [num |-> 0, den |-> 1]

\* (public / total * 100) if total > 0 else 0, kept as the exact fraction
\* num / den.
SuccessRate(public, total) ==
    IF total > 0
    THEN [num |-> public * percent, den |-> total]
    ELSE [num |-> 0, den |-> 1]

get_stats(tbl) ==
    LET total == Cardinality(DOMAIN tbl)
        public == Cardinality({i \in DOMAIN tbl : tbl[i].is_public})
        visible == Cardinality({i \in DOMAIN tbl : tbl[i].is_visible})
        pending == Cardinality({i \in DOMAIN tbl : tbl[i].status = "pending"})
    IN  [kind |-> "stats",
         total_listings |-> total,
         public_listings |-> public,
         visible_listings |-> visible,
         pending_listings |-> pending,
         success_rate |-> SuccessRate(public, total)]

generate_ai_report(tbl) ==
    LET total == Cardinality(DOMAIN tbl)
        processed == Cardinality({i \in DOMAIN tbl : tbl[i].status = "processed"})
    IN  [kind |-> "report",
         total |-> total,
         processed |-> processed,
         success_rate |-> SuccessRate(processed, total)]

\* --------------------------------------------------------------- login (ai)
\* Variant of MeetsThreshold that accepts one half: success_count / n >= 0.5.
MeetsThreshold_Half(success_count_, n) == success_count_ * 2 >= n

\* success_count / len(verification_methods) >= 0.6
MeetsThreshold(success_count_, n) ==
    success_count_ * confidence_threshold_den >= confidence_threshold_num * n

Indicators == [1..4 -> BOOLEAN]

\* verify_login_success: the four checks run in order; check_url_for_success
\* reads driver.current_url outside any try of its own, so a fault there
\* reaches the method's except and the verdict is False.
verify_login_success(ind, url_fault) ==
    IF url_fault
    THEN FALSE
    ELSE MeetsThreshold(Cardinality({k \in 1..4 : ind[k]}), 4)

\* detect_problems: the lists it can return, as sets of the strings in them;
\* ["Detection failed"] comes from its outer except.
DetectProblemsResults ==
    (SUBSET {"Error detected", "Page loading slowly", "Login required"})
        \cup {{"Detection failed"}}

\* make_decision(context).action. `"login" in problems` is list membership of
\* the exact string "login"; "loading" is searched in str(problems).lower().
make_decision(situation, problems) ==
    IF "login" \in problems THEN "relogin"
    ELSE IF "Page loading slowly" \in problems THEN "wait_and_retry"
    ELSE IF situation = "too_many_failures" THEN "take_break"
    ELSE IF situation = "success_pattern" THEN "continue_aggressive"
    ELSE "proceed_cautious"

\* except branch of the for loop of process_listings_cautious, reached with
\* the 0-based index i of the listing whose pass raised: beyond the threshold
\* make_decision({'situation': 'multiple_errors'}) is asked, and the loop is
\* left only on take_break; otherwise `continue`.
cautious_on_error(i) ==
    IF /\ i > error_index_threshold
       /\ make_decision("multiple_errors", {}) = "take_break"
    THEN "break"
    ELSE "continue"

\* Variant of ShouldBackoff that is off by one: `if attempt < max_attempts`.
ShouldBackoff_OffByOne(attempt_, max_attempts) == attempt_ < max_attempts

\* except branch of the login loop: `if attempt < max_attempts - 1`
\* (attempt is the 0-based loop variable).
ShouldBackoff(attempt_, max_attempts) == attempt_ < max_attempts - 1

\* Variant of LoginBackoff scaled by the 0-based loop variable.
LoginBackoff_ZeroFirst(attempt_) == login_backoff * attempt_

\* Variant of LoginBackoff that does not scale with the attempt number.
LoginBackoff_Fixed(attempt_) == login_backoff

\* backoff = retry_strategies['login']['backoff'] * (attempt + 1)
LoginBackoff(attempt_) == login_backoff * (attempt_ + 1)

\* ------------------------------------------------------------ initial state
\* __init__ then setup_database (CREATE TABLE IF NOT EXISTS) on a fresh
\* database file; nothing of a run has happened.
RunLocalsInit ==
    /\ pc = "NotStarted"
    /\ driver = "none"
    /\ quit_count = 0
    /\ result = "none"
    /\ attempt = 0
    /\ op_calls = 0
    /\ sleeps = << >>
    /\ last_outcome = "none"
    /\ last_verify = NoVerify
    /\ login_ret = FALSE
    /\ db_listings = << >>
    /\ ui_queue = << >>
    /\ collected = << >>
    /\ success_count = 0
    /\ total_count = 0
    /\ load_all_pending = FALSE
    /\ entered = {}
    /\ stats = NoStats
    /\ last_upsert = NoUpsert
    /\ last_listing = NoListing

Init ==
    /\ variant \in Variants
    /\ now = 0
    /\ listings = EmptyTable
    /\ ai_listings = EmptyTable
    /\ RunLocalsInit
    /\ last_update = NoUpdate
    /\ page = NoPage
    /\ found = NotCalled

storeVars == << listings, ai_listings >>
loginVars == << attempt, op_calls, sleeps, last_outcome, last_verify, login_ret >>
workVars == << db_listings, ui_queue, collected, success_count, total_count,
               load_all_pending, entered, last_upsert, last_listing >>
apiVars == << last_update, page, found >>

\* The clock behind CURRENT_TIMESTAMP moves on its own.
Tick ==
    /\ now < MaxTime
    /\ now' = now + 1
    /\ UNCHANGED << variant, pc, driver, quit_count, result, stats >>
    /\ UNCHANGED storeVars
    /\ UNCHANGED loginVars
    /\ UNCHANGED workVars
    /\ UNCHANGED apiVars

\* ------------------------------------------------ run_bot / run_ai_bot frame
\* initialize_driver and the `if not self.initialize_driver(): return` of the
\* caller. "chrome_fail": webdriver.Chrome raises, self.driver stays None.
\* "script_fail": webdriver.Chrome returns a session, the execute_script after
\* it raises; self.driver holds the session and the method returns False.
InitializeDriver ==
    /\ pc = "NotStarted"
    /\ \E o \in {"ok", "chrome_fail", "script_fail"} :
        /\ driver' = IF o = "chrome_fail" THEN "none" ELSE "live"
        /\ pc' = IF o = "ok" THEN "DriverReady" ELSE "Ended"
        /\ result' = IF o = "ok" THEN "none" ELSE "Aborted"
    /\ UNCHANGED << variant, quit_count, now, stats >>
    /\ UNCHANGED storeVars
    /\ UNCHANGED loginVars
    /\ UNCHANGED workVars
    /\ UNCHANGED apiVars

\* What SQLite does with the INSERT INTO ai_decisions of one record_decision.
DbResponses == {"ok", "error"}

\* Variant of record_decision without its try/except.
record_decision_Raises(db) == IF db = "error" THEN "raise" ELSE "None"

\* record_decision: the insert and its commit sit in a try whose except only
\* logs; the method returns None either way.
record_decision(db) == IF db = "error" THEN "None" ELSE "None"

\* login (main.py): one attempt; only the URL is looked at. Any exception is
\* caught inside and the method returns False.
PhpLogin ==
    /\ variant = "php"
    /\ pc = "DriverReady"
    /\ \E o \in {"url_without_login", "url_with_login", "exception"} :
        login_ret' = (o = "url_without_login")
    /\ op_calls' = op_calls + 1
    /\ pc' = "LoginReturned"
    /\ UNCHANGED << variant, driver, quit_count, result, now, stats >>
    /\ UNCHANGED << attempt, sleeps, last_outcome, last_verify >>
    /\ UNCHANGED storeVars
    /\ UNCHANGED workVars
    /\ UNCHANGED apiVars

\* One pass of `for attempt in range(max_attempts)` of intelligent_login.
\*   exc        an exception leaves the try body before verification
\*   ind, uf    what the four checks of verify_login_success see
\*   problems   the list detect_problems returns
\*   db         what the insert of record_decision("login", "success", ...)
\*              meets; the call sits inside the try of the loop body
AiLoginAttempt ==
    /\ variant = "ai"
    /\ pc = "DriverReady"
    /\ attempt < login_max_attempts
    /\ op_calls' = op_calls + 1
    /\ \E exc \in BOOLEAN :
        IF exc
        THEN /\ last_outcome' = "exception"
             /\ last_verify' = NoVerify
             /\ sleeps' = IF ShouldBackoff(attempt, login_max_attempts)
                          THEN Append(sleeps, [after |-> attempt + 1,
                                               secs |-> LoginBackoff(attempt)])
                          ELSE sleeps
             /\ attempt' = attempt + 1
             /\ login_ret' = FALSE
             /\ pc' = IF attempt + 1 < login_max_attempts
                      THEN "DriverReady" ELSE "LoginReturned"
        ELSE \E ind \in Indicators, uf \in BOOLEAN :
             LET verdict == verify_login_success(ind, uf)
             IN  /\ last_verify' = IF uf
                                   THEN [kind |-> "fault", verdict |-> verdict]
                                   ELSE [kind |-> "verify", ind |-> ind,
                                         verdict |-> verdict]
                 /\ IF verdict
                    THEN \E db \in DbResponses :
                         IF record_decision(db) = "raise"
                         THEN /\ last_outcome' = "exception"
                              /\ sleeps' =
                                   IF ShouldBackoff(attempt, login_max_attempts)
                                   THEN Append(sleeps,
                                            [after |-> attempt + 1,
                                             secs |-> LoginBackoff(attempt)])
                                   ELSE sleeps
                              /\ attempt' = attempt + 1
                              /\ login_ret' = FALSE
                              /\ pc' = IF attempt + 1 < login_max_attempts
                                       THEN "DriverReady" ELSE "LoginReturned"
                         ELSE /\ last_outcome' = "success"
                              /\ login_ret' = TRUE
                              /\ pc' = "LoginReturned"
                              /\ UNCHANGED << attempt, sleeps >>
                    ELSE \E problems \in DetectProblemsResults :
                         /\ last_outcome' = "rejected"
                         /\ login_ret' = FALSE
                         /\ IF make_decision("login_failed", problems) = "relogin"
                               /\ attempt < login_max_attempts - 1
                            THEN /\ sleeps' = Append(sleeps,
                                        [after |-> attempt + 1,
                                         secs |-> relogin_wait_time])
                                 /\ attempt' = attempt + 1
                                 /\ pc' = "DriverReady"
                            ELSE /\ pc' = "LoginReturned"
                                 /\ UNCHANGED << attempt, sleeps >>
    /\ UNCHANGED << variant, driver, quit_count, result, now, stats >>
    /\ UNCHANGED storeVars
    /\ UNCHANGED workVars
    /\ UNCHANGED apiVars

\* `if not self.login(...): return` / `if not self.intelligent_login(...):
\* return` inside the try of the run; the login method's locals are gone.
AfterLoginPc_Always(login_ret_) == "LoggedIn"

\* `if not self.login(email, password): return` inside the try of the run:
\* the work starts only when login returned True, otherwise the run leaves
\* through the `finally`.
AfterLoginPc(login_ret_) == IF login_ret_ THEN "LoggedIn" ELSE "Closing"

AfterLogin ==
    /\ pc = "LoginReturned"
    /\ pc' = AfterLoginPc(login_ret)
    /\ result' = IF login_ret THEN result ELSE "Aborted"
    /\ attempt' = 0
    /\ op_calls' = 0
    /\ sleeps' = << >>
    /\ last_outcome' = "none"
    /\ last_verify' = NoVerify
    /\ UNCHANGED << variant, driver, quit_count, now, stats, login_ret >>
    /\ UNCHANGED storeVars
    /\ UNCHANGED workVars
    /\ UNCHANGED apiVars

\* close(), reached through the `finally` of the run.
Close ==
    /\ pc = "Closing"
    /\ IF driver # "none"
       THEN /\ driver' = "quit"
            /\ quit_count' = quit_count + 1
       ELSE UNCHANGED << driver, quit_count >>
    /\ pc' = "Ended"
    /\ UNCHANGED << variant, result, now, stats >>
    /\ UNCHANGED storeVars
    /\ UNCHANGED loginVars
    /\ UNCHANGED workVars
    /\ UNCHANGED apiVars

\* Exit status of the process: the `if __name__ == "__main__":` block calls
\* run_bot / run_ai_bot, drops what it returns and ends; no sys.exit is
\* called anywhere, so the interpreter exits with 0 whatever the run's result.
exit_status(result_) == 0

\* The process starts again later on the same database file: a new bot object.
NewRun ==
    /\ pc = "Ended"
    /\ pc' = "NotStarted"
    /\ driver' = "none"
    /\ quit_count' = 0
    /\ result' = "none"
    /\ attempt' = 0
    /\ op_calls' = 0
    /\ sleeps' = << >>
    /\ last_outcome' = "none"
    /\ last_verify' = NoVerify
    /\ login_ret' = FALSE
    /\ db_listings' = << >>
    /\ ui_queue' = << >>
    /\ collected' = << >>
    /\ success_count' = 0
    /\ total_count' = 0
    /\ load_all_pending' = FALSE
    /\ entered' = {}
    /\ stats' = NoStats
    /\ last_upsert' = NoUpsert
    /\ last_listing' = NoListing
    /\ UNCHANGED << variant, now >>
    /\ UNCHANGED storeVars
    /\ UNCHANGED apiVars

\* ------------------------------------------------------------- enumeration
\* What find_elements("//a[contains(@href, '/marketplace/item/')]") returns:
\* the item ids of the anchors, in page order; an item can have several
\* anchors.
UISeqs == UNION {[1..n -> Items] : n \in 0..MaxUI}

RowOf(tbl, item_id) == IF item_id \in DOMAIN tbl THEN tbl[item_id] ELSE NoRow

UpsertRecord(item_id, before, after) ==
    [kind |-> "upsert", item_id |-> item_id, at |-> now,
     rows_before |-> Cardinality(DOMAIN before),
     rows_after |-> Cardinality(DOMAIN after),
     before |-> RowOf(before, item_id), after |-> RowOf(after, item_id)]

\* ----------------------------------------------------- main.py: processing
\* process_listings up to `if not db_listings`.
PhpLoad ==
    /\ variant = "php"
    /\ pc = "LoggedIn"
    /\ \E seq \in get_listings_from_db(listings) :
        /\ db_listings' = seq
        /\ total_count' = Len(seq)
        /\ pc' = IF seq = << >> THEN "Enumerating" ELSE "Processing"
    /\ load_all_pending' = /\ DOMAIN listings # {}
                           /\ \A i \in DOMAIN listings :
                                listings[i].status = "pending"
    /\ success_count' = 0
    /\ UNCHANGED << variant, driver, quit_count, result, now, stats >>
    /\ UNCHANGED << ui_queue, collected, entered, last_upsert, last_listing >>
    /\ UNCHANGED storeVars
    /\ UNCHANGED loginVars
    /\ UNCHANGED apiVars

\* get_marketplace_listings up to its for loop. A driver fault is caught by
\* the method, which returns []; process_listings then returns None and the
\* tuple unpacking in run_bot raises into run_bot's except.
PhpEnumerate ==
    /\ variant = "php"
    /\ pc = "Enumerating"
    /\ \E fault \in BOOLEAN, ui \in UISeqs :
        IF fault
        THEN /\ pc' = "Closing"
             /\ result' = "Aborted"
             /\ UNCHANGED ui_queue
        ELSE /\ pc' = "Discovering"
             /\ ui_queue' = ui
             /\ UNCHANGED result
    /\ collected' = << >>
    /\ UNCHANGED << variant, driver, quit_count, now, stats >>
    /\ UNCHANGED << db_listings, success_count, total_count, load_all_pending,
                    entered, last_upsert, last_listing >>
    /\ UNCHANGED storeVars
    /\ UNCHANGED loginVars
    /\ UNCHANGED apiVars

\* One pass of the for loop of get_marketplace_listings: skip when reading
\* the anchor raises (`continue`), else collect it and add_listing_to_db.
PhpDiscover ==
    /\ variant = "php"
    /\ pc = "Discovering"
    /\ ui_queue # << >>
    /\ ui_queue' = Tail(ui_queue)
    /\ \E skip \in BOOLEAN :
        IF skip
        THEN UNCHANGED << listings, collected, last_upsert >>
        ELSE LET item_id == Head(ui_queue)
                 after == add_listing_to_db(listings, item_id, now)
             IN  /\ listings' = after
                 /\ collected' = Append(collected, item_id)
                 /\ last_upsert' = UpsertRecord(item_id, listings, after)
    /\ UNCHANGED << variant, pc, driver, quit_count, result, now, stats >>
    /\ UNCHANGED << db_listings, success_count, total_count, load_all_pending,
                    entered, last_listing, ai_listings >>
    /\ UNCHANGED loginVars
    /\ UNCHANGED apiVars

\* End of get_marketplace_listings and the rest of process_listings: with
\* nothing collected it returns None (run_bot's unpacking raises); otherwise
\* the for loop runs over db_listings, which is still the empty result of the
\* query, and the method returns (0, 0).
PhpDiscoverDone ==
    /\ variant = "php"
    /\ pc = "Discovering"
    /\ ui_queue = << >>
    /\ IF collected = << >>
       THEN /\ pc' = "Closing"
            /\ result' = "Aborted"
       ELSE /\ pc' = "Stats"
            /\ UNCHANGED result
    /\ success_count' = 0
    /\ total_count' = Len(db_listings)
    /\ last_upsert' = NoUpsert
    /\ UNCHANGED << variant, driver, quit_count, now, stats >>
    /\ UNCHANGED << db_listings, ui_queue, collected, load_all_pending, entered,
                    last_listing >>
    /\ UNCHANGED storeVars
    /\ UNCHANGED loginVars
    /\ UNCHANGED apiVars

\* Variant of StatusUpdates whose failure branch repeats the success flags.
StatusUpdates_FlagsCopied(success) ==
    IF success
    THEN [status |-> "processed", is_public |-> TRUE, is_visible |-> TRUE]
    ELSE [status |-> "failed", is_public |-> TRUE, is_visible |-> TRUE]

\* The dict process_listings hands to update_listing_in_db.
StatusUpdates(success) ==
    IF success
    THEN [status |-> "processed", is_public |-> TRUE, is_visible |-> TRUE]
    ELSE [status |-> "failed", is_public |-> FALSE, is_visible |-> FALSE]

\* What the Reporting Sink does with one requests.post.
SinkResponses == {"200", "other_status", "exception"}

\* The send_to_php calls of one pass of the loop of process_listings:
\* log_to_php(..., 'started'), update_php_dashboard inside
\* update_listing_in_db, log_to_php(..., 'success' | 'error').
PostSites == {"started", "update", "result"}

\* Variant of send_to_php without the try/except around requests.post.
send_to_php_Raises(response) ==
    IF response = "exception" THEN "raise"
    ELSE IF response = "200" THEN "True" ELSE "False"

\* send_to_php: `return response.status_code == 200`, and `except Exception:
\* return False`.
send_to_php(response) ==
    IF response = "exception" THEN "False"
    ELSE IF response = "200" THEN "True" ELSE "False"

\* How one call of make_listing_public can go:
\*   "saved"      a save button was clicked, return True
\*   "not_saved"  no edit or no save button was found, return False
\*   "fault"      the driver raised (driver.get, click), the method's outer
\*                except returns False
PhpListingOutcomes == {"saved", "not_saved", "fault"}

\* Variant of AfterListing that leaves the loop at the first failure.
AfterListing_StopsOnFailure(rest, success, done_pc) ==
    IF rest = << >> \/ ~success THEN done_pc ELSE "Processing"

\* Variant of AfterListing that never leaves the loop.
AfterListing_NeverLeaves(rest, success, done_pc) == "Processing"

\* Where the for loop over the listings stands after one pass: at the next
\* listing while one is left, whatever the pass returned.
AfterListing(rest, success, done_pc) ==
    IF rest = << >> THEN done_pc ELSE "Processing"

\* What one pass of the loop of process_listings does, in order. An exception
\* out of the 'started' log would reach the except of process_listings.
PhpListingEvents(started) ==
    IF started = "raise"
    THEN << "log_to_php:started" >>
    ELSE << "log_to_php:started", "make_listing_public", "UPDATE",
            "update_php_dashboard", "log_to_php:result" >>

\* One pass of `for listing in db_listings`: make_listing_public (which
\* catches every exception and returns False) then update_listing_in_db.
\* An exception out of log_to_php would leave the loop through the except of
\* process_listings, which returns (0, 0); one out of update_php_dashboard is
\* caught by update_listing_in_db after its commit.
PhpProcess ==
    /\ variant = "php"
    /\ pc = "Processing"
    /\ db_listings # << >>
    /\ \E o \in PhpListingOutcomes, posts \in [PostSites -> SinkResponses] :
        LET item_id == Head(db_listings)
            success == (o = "saved")
            started == send_to_php(posts["started"])
            logged == send_to_php(posts["result"])
        IN  /\ last_listing' =
                   [kind |-> "listing", item_id |-> item_id, outcome |-> o,
                    events |-> PhpListingEvents(started),
                    returned |-> << >>,
                    sink_returns |-> {send_to_php(posts[site]) :
                                          site \in PostSites}]
            /\ IF started = "raise"
               THEN /\ pc' = "Stats"
                    /\ success_count' = 0
                    /\ total_count' = 0
                    /\ UNCHANGED << entered, listings, db_listings >>
               ELSE /\ entered' = entered \cup {item_id}
                    /\ listings' = update_listing_in_db(listings, item_id,
                                       StatusUpdates(success), now)
                    /\ db_listings' = Tail(db_listings)
                    /\ IF logged = "raise"
                       THEN /\ pc' = "Stats"
                            /\ success_count' = 0
                            /\ total_count' = 0
                       ELSE /\ pc' = AfterListing(Tail(db_listings), success,
                                                  "Stats")
                            /\ success_count' = IF success
                                                THEN success_count + 1
                                                ELSE success_count
                            /\ UNCHANGED total_count
    /\ UNCHANGED << variant, driver, quit_count, result, now, stats >>
    /\ UNCHANGED << ui_queue, collected, load_all_pending, last_upsert,
                    ai_listings >>
    /\ UNCHANGED loginVars
    /\ UNCHANGED apiVars

\* get_stats, then the completion log of run_bot.
PhpStats ==
    /\ variant = "php"
    /\ pc = "Stats"
    /\ stats' = get_stats(listings)
    /\ pc' = "Closing"
    /\ result' = "Done"
    /\ last_listing' = NoListing
    /\ UNCHANGED << variant, driver, quit_count, now >>
    /\ UNCHANGED << db_listings, ui_queue, collected, success_count,
                    total_count, load_all_pending, entered, last_upsert >>
    /\ UNCHANGED storeVars
    /\ UNCHANGED loginVars
    /\ UNCHANGED apiVars

\* --------------------------------------------------- scanner.py: processing
\* intelligent_listing_processing up to the for loop of
\* get_listings_with_ai_analysis. "get_fault": driver.get raises into the
\* method's except. "find_fault": find_elements raises,
\* get_listings_with_ai_analysis returns [] and the method returns.
AiOpenSelling ==
    /\ variant = "ai"
    /\ pc = "LoggedIn"
    /\ \E o \in {"get_fault", "find_fault", "ok"}, ui \in UISeqs :
        IF o = "ok"
        THEN /\ pc' = "Discovering"
             /\ ui_queue' = ui
        ELSE /\ pc' = "Report"
             /\ UNCHANGED ui_queue
    /\ collected' = << >>
    /\ UNCHANGED << variant, driver, quit_count, result, now, stats >>
    /\ UNCHANGED << db_listings, success_count, total_count, load_all_pending,
                    entered, last_upsert, last_listing >>
    /\ UNCHANGED storeVars
    /\ UNCHANGED loginVars
    /\ UNCHANGED apiVars

\* One pass of the for loop of get_listings_with_ai_analysis: skip when
\* reading the anchor raises, else append it and save_listing_to_ai_db.
AiDiscover ==
    /\ variant = "ai"
    /\ pc = "Discovering"
    /\ ui_queue # << >>
    /\ ui_queue' = Tail(ui_queue)
    /\ \E skip \in BOOLEAN :
        IF skip
        THEN UNCHANGED << ai_listings, collected, last_upsert >>
        ELSE LET item_id == Head(ui_queue)
                 after == save_listing_to_ai_db(ai_listings, item_id, now)
             IN  /\ ai_listings' = after
                 /\ collected' = Append(collected, item_id)
                 /\ last_upsert' = UpsertRecord(item_id, ai_listings, after)
    /\ UNCHANGED << variant, pc, driver, quit_count, result, now, stats >>
    /\ UNCHANGED << db_listings, success_count, total_count, load_all_pending,
                    entered, last_listing, listings >>
    /\ UNCHANGED loginVars
    /\ UNCHANGED apiVars

\* `if not listings: return`, then the dispatch on
\* make_decision({'situation': 'normal', ...}).action: take_break sleeps and
\* processes nothing, every other action runs a processing loop over listings.
AiDiscoverDone ==
    /\ variant = "ai"
    /\ pc = "Discovering"
    /\ ui_queue = << >>
    /\ pc' = IF \/ collected = << >>
                \/ make_decision("normal", {}) = "take_break"
             THEN "Report" ELSE "Processing"
    /\ last_upsert' = NoUpsert
    /\ UNCHANGED << variant, driver, quit_count, result, now, stats >>
    /\ UNCHANGED << db_listings, ui_queue, collected, success_count,
                    total_count, load_all_pending, entered, last_listing >>
    /\ UNCHANGED storeVars
    /\ UNCHANGED loginVars
    /\ UNCHANGED apiVars

\* How one call of make_listing_public_intelligent can go:
\*   "open_fault"   window.open / switch_to raises: except, return False
\*   "close_fault"  driver.close / switch_to after the strategies raises:
\*                  except, return False
\*   "saved"        a strategy returned True, the status is recorded
\*   "not_saved"    every strategy returned False, the status is recorded
ListingOutcomes == {"open_fault", "close_fault", "saved", "not_saved"}

\* The status make_listing_public_intelligent records for an outcome, "none"
\* when it returns through its except without recording one.
RecordedStatus(o) ==
    IF o = "saved" THEN "processed"
    ELSE IF o = "not_saved" THEN "failed"
    ELSE "none"

\* strategies = [strategy_direct_edit, strategy_audience_settings,
\* strategy_quick_save]
StrategyOrder == << "strategy_direct_edit", "strategy_audience_settings",
                   "strategy_quick_save" >>

\* What each strategy returns if it is called; every strategy catches its own
\* exceptions and returns False.
StrategyResults == [DOMAIN StrategyOrder -> BOOLEAN]

\* Variant of RunStrategies without the break: every strategy is called.
RunStrategies_NoBreak(r) ==
    [returned |-> << r[1], r[2], r[3] >>, success |-> r[1] \/ r[2] \/ r[3]]

\* `for strategy in strategies: if strategy(): success = True; break`:
\* the values the called strategies returned, in call order, and success.
RunStrategies(r) ==
    IF r[1] THEN [returned |-> << TRUE >>, success |-> TRUE]
    ELSE IF r[2] THEN [returned |-> << FALSE, TRUE >>, success |-> TRUE]
    ELSE IF r[3] THEN [returned |-> << FALSE, FALSE, TRUE >>,
                       success |-> TRUE]
    ELSE [returned |-> << FALSE, FALSE, FALSE >>, success |-> FALSE]

\* The listing tabs a call of make_listing_public_intelligent can leave open
\* and the window the driver is on when it returns. The tab is closed and the
\* main window selected by two calls after the strategies, outside any
\* finally:
\*   "open_fault"   execute_script("window.open(...)") raised: no tab; or
\*                  switch_to.window raised after it: the tab is open
\*   "close_fault"  driver.close() raised: the tab is open and selected; or
\*                  switch_to.window(handles[0]) raised after it: the tab is
\*                  gone and the driver is still on the closed window
WindowsAfter(o) ==
    IF o = "open_fault"
    THEN {[tabs_left |-> 0, focus |-> "main"], [tabs_left |-> 1, focus |-> "main"]}
    ELSE IF o = "close_fault"
    THEN {[tabs_left |-> 1, focus |-> "tab"], [tabs_left |-> 0, focus |-> "closed"]}
    ELSE {[tabs_left |-> 0, focus |-> "main"]}

\* What one call of make_listing_public_intelligent does, in order; n
\* strategies were called.
AiListingEvents(o, n) ==
    IF o = "open_fault"
    THEN << "window.open" >>
    ELSE << "window.open" >> \o SubSeq(StrategyOrder, 1, n)
             \o << "driver.close" >>
             \o (IF o = "close_fault" THEN << >>
                 ELSE << "UPDATE", "record_decision" >>)

\* One pass of the for loop of process_listings_cautious /
\* process_listings_aggressive: make_listing_public_intelligent(listing).
\* record_decision is its last call, after update_listing_status; an
\* exception out of it would reach the method's except after the status
\* write.
AiProcess ==
    /\ variant = "ai"
    /\ pc = "Processing"
    /\ collected # << >>
    /\ \E o \in ListingOutcomes, r \in StrategyResults, db \in DbResponses :
        LET item_id == Head(collected)
            logs == RecordedStatus(o) # "none"
            ran == IF o = "open_fault"
                   THEN [returned |-> << >>, success |-> FALSE]
                   ELSE RunStrategies(r)
        IN  /\ o = "saved" => ran.success
            /\ o = "not_saved" => ~ran.success
            /\ entered' = entered \cup {item_id}
            /\ ai_listings' =
                   IF RecordedStatus(o) = "none"
                   THEN ai_listings
                   ELSE update_listing_status(ai_listings, item_id,
                                              RecordedStatus(o), now)
            /\ last_listing' =
                   [kind |-> "listing", item_id |-> item_id, outcome |-> o,
                    events |-> AiListingEvents(o, Len(ran.returned)),
                    returned |-> ran.returned,
                    sink_returns |-> {},
                    log |-> IF logs THEN record_decision(db) ELSE "not_called",
                    log_failed |-> logs /\ db = "error"]
            /\ pc' = AfterListing(Tail(collected), o = "saved", "Report")
    /\ collected' = Tail(collected)
    /\ UNCHANGED << variant, driver, quit_count, result, now, stats >>
    /\ UNCHANGED << db_listings, ui_queue, success_count, total_count,
                    load_all_pending, last_upsert, listings >>
    /\ UNCHANGED loginVars
    /\ UNCHANGED apiVars

\* generate_ai_report, then the completion log of run_ai_bot.
AiReport ==
    /\ variant = "ai"
    /\ pc = "Report"
    /\ stats' = generate_ai_report(ai_listings)
    /\ pc' = "Closing"
    /\ result' = "Done"
    /\ last_listing' = NoListing
    /\ UNCHANGED << variant, driver, quit_count, now >>
    /\ UNCHANGED << db_listings, ui_queue, collected, success_count,
                    total_count, load_all_pending, entered, last_upsert >>
    /\ UNCHANGED storeVars
    /\ UNCHANGED loginVars
    /\ UNCHANGED apiVars

\* ------------------------------------------------------------ specification
Next ==
    \/ Tick
    \/ InitializeDriver
    \/ PhpLogin
    \/ AiLoginAttempt
    \/ AfterLogin
    \/ PhpLoad
    \/ PhpEnumerate
    \/ PhpDiscover
    \/ PhpDiscoverDone
    \/ PhpProcess
    \/ PhpStats
    \/ AiOpenSelling
    \/ AiDiscover
    \/ AiDiscoverDone
    \/ AiProcess
    \/ AiReport
    \/ Close
    \/ NewRun

Spec == Init /\ [][Next]_vars

\* The run seen as a sequential program: whenever one of its steps can be
\* taken the interpreter takes it. Every blocking call inside a step returns
\* or raises (WebDriverWait(driver, 20), requests.post(..., timeout=10),
\* time.sleep of a finite length).
RunStep ==
    \/ InitializeDriver
    \/ PhpLogin
    \/ AiLoginAttempt
    \/ AfterLogin
    \/ PhpLoad
    \/ PhpEnumerate
    \/ PhpDiscover
    \/ PhpDiscoverDone
    \/ PhpProcess
    \/ PhpStats
    \/ AiOpenSelling
    \/ AiDiscover
    \/ AiDiscoverDone
    \/ AiProcess
    \/ AiReport
    \/ Close

FairSpec == Spec /\ WF_vars(RunStep)

\* ------------------------------------------- the store's methods on their own
\* What a status update hands back to its caller. Neither method looks at the
\* number of rows its UPDATE matched: update_listing_in_db returns True after
\* the commit and the dashboard push, update_listing_status returns None.
UpdateReturn(v, existed) == IF v = "php" THEN "True" ELSE "None"

\* add_listing_to_db / save_listing_to_ai_db called on the constructed object.
StoreUpsert ==
    /\ pc = "NotStarted"
    /\ \E item_id \in Items :
        IF variant = "php"
        THEN LET after == add_listing_to_db(listings, item_id, now)
             IN  /\ listings' = after
                 /\ last_upsert' = UpsertRecord(item_id, listings, after)
                 /\ UNCHANGED ai_listings
        ELSE LET after == save_listing_to_ai_db(ai_listings, item_id, now)
             IN  /\ ai_listings' = after
                 /\ last_upsert' = UpsertRecord(item_id, ai_listings, after)
                 /\ UNCHANGED listings
    /\ last_update' = NoUpdate
    /\ UNCHANGED << variant, pc, driver, quit_count, result, now, stats >>
    /\ UNCHANGED << db_listings, ui_queue, collected, success_count,
                    total_count, load_all_pending, entered, last_listing >>
    /\ UNCHANGED << page, found >>
    /\ UNCHANGED loginVars

\* update_listing_in_db / update_listing_status called on the constructed
\* object, with the arguments the processing loops pass.
StoreUpdate ==
    /\ pc = "NotStarted"
    /\ \E item_id \in Items, success \in BOOLEAN :
        LET before == IF variant = "php" THEN listings ELSE ai_listings
            after == IF variant = "php"
                     THEN update_listing_in_db(listings, item_id,
                                               StatusUpdates(success), now)
                     ELSE update_listing_status(ai_listings, item_id,
                              IF success THEN "processed" ELSE "failed", now)
            existed == item_id \in DOMAIN before
        IN  /\ listings' = IF variant = "php" THEN after ELSE listings
            /\ ai_listings' = IF variant = "php" THEN ai_listings ELSE after
            /\ last_update' = [kind |-> "update", item_id |-> item_id,
                               existed |-> existed,
                               returned |-> UpdateReturn(variant, existed),
                               unchanged |-> (after = before)]
    /\ last_upsert' = NoUpsert
    /\ UNCHANGED << variant, pc, driver, quit_count, result, now, stats >>
    /\ UNCHANGED << db_listings, ui_queue, collected, success_count,
                    total_count, load_all_pending, entered, last_listing >>
    /\ UNCHANGED << page, found >>
    /\ UNCHANGED loginVars

StoreNext ==
    \/ Tick
    \/ StoreUpsert
    \/ StoreUpdate

StoreSpec == Init /\ [][StoreNext]_vars

\* ------------------------------------------------------- element resolution
\* How the lookup of one selector and the is_displayed() after it can go:
\*   "no_such_element"  find_element raises NoSuchElementException, or
\*                      wait.until raises TimeoutException
\*   "hidden"           found, is_displayed() is False
\*   "disabled"         found, is_displayed() is True, is_enabled() would be
\*                      False
\*   "usable"           found, displayed and enabled
\*   "driver_fault"     the driver raises WebDriverException (session lost)
LookupResults == {"no_such_element", "hidden", "disabled", "usable",
                  "driver_fault"}

\* Contexts smart_element_finder is called with.
Contexts == {"login_email", "edit_button", "save_button"}

\* What one resolution meets: the outcome of each selector of the list, what
\* the fallback's find_elements calls give, and whether a JS query returns an
\* element.
Pages ==
    [kind : {"page"},
     context : Contexts,
     lookups : UNION {[1..n -> LookupResults] : n \in 1..MaxCandidates},
     edit_text : {"none", "some", "driver_fault"},
     clickable : {"none", "usable", "driver_fault"},
     js : {"none", "element"}]

NotFound == [kind |-> "None"]

\* `if "login" in context` / `elif "critical" in context` / else; no
\* context in use contains "critical".
choose_finding_strategy(context) ==
    IF context = "login_email" THEN "aggressive" ELSE "balanced"

\* fallback_element_finder: the text match (edit contexts only, first match
\* returned unchecked), then the first displayed and enabled button, then the
\* JS queries; any exception reaches `except Exception: return None`.
fallback_element_finder(p) ==
    IF p.context = "edit_button" /\ p.edit_text = "driver_fault"
    THEN NotFound
    ELSE IF p.context = "edit_button" /\ p.edit_text = "some"
    THEN [kind |-> "element", via |-> "fallback:text"]
    ELSE IF p.clickable = "driver_fault"
    THEN NotFound
    ELSE IF p.clickable = "usable"
    THEN [kind |-> "element", via |-> "fallback:button"]
    ELSE IF p.js = "element"
    THEN [kind |-> "element", via |-> "fallback:js"]
    ELSE NotFound

\* The for loop of smart_element_finder from selector k on: the first
\* selector whose element is_displayed() is returned, every exception is
\* caught and the loop continues; after the loop the fallback is asked.
RECURSIVE FindFrom(_, _)
FindFrom(p, k) ==
    IF k > Len(p.lookups)
    THEN [tried |-> Len(p.lookups)] @@ fallback_element_finder(p)
    ELSE IF p.lookups[k] \in {"disabled", "usable"}
    THEN [kind |-> "element", via |-> "selector", index |-> k,
          state |-> p.lookups[k], tried |-> k]
    ELSE FindFrom(p, k + 1)

smart_element_finder(p) ==
    [strategy |-> choose_finding_strategy(p.context)] @@ FindFrom(p, 1)

\* attempt_save: `save_btn = self.smart_element_finder(save_selectors,
\* "save_button")`; whatever element comes back is clicked and the method
\* returns True, which the strategy returns and the listing pass records as
\* processed.
attempt_save(p) == smart_element_finder(p).kind = "element"

ResolveInit ==
    /\ variant = "ai"
    /\ now = 0
    /\ listings = EmptyTable
    /\ ai_listings = EmptyTable
    /\ RunLocalsInit
    /\ last_update = NoUpdate
    /\ page \in Pages
    /\ found = NotCalled

\* One call smart_element_finder(selectors, context) on the page.
Resolve ==
    /\ page # NoPage
    /\ found = NotCalled
    /\ found' = smart_element_finder(page)
    /\ UNCHANGED << variant, pc, driver, quit_count, result, now, stats >>
    /\ UNCHANGED << last_update, page >>
    /\ UNCHANGED storeVars
    /\ UNCHANGED loginVars
    /\ UNCHANGED workVars

ResolveSpec == ResolveInit /\ [][Resolve]_vars

\* ------------------------------------------------------------------ claims
RunEnded == pc = "Ended"

\* C1: every run, whether it ends Done or Aborted (driver start failure
\* included), has invoked driver.quit exactly once when it ends.
C1_QuitExactlyOnce == RunEnded => quit_count = 1

\* The row of item_id is in a terminal status: processed with both flags set
\* or failed with both flags clear (ai_listings has no flag columns).
TerminalRow(item_id) ==
    IF variant = "php"
    THEN /\ item_id \in DOMAIN listings
         /\ LET r == listings[item_id]
            IN  \/ r.status = "processed" /\ r.is_public /\ r.is_visible
                \/ r.status = "failed" /\ ~r.is_public /\ ~r.is_visible
    ELSE /\ item_id \in DOMAIN ai_listings
         /\ ai_listings[item_id].status \in {"processed", "failed"}

\* C2: after the run, every listing that entered processing during it is in a
\* terminal status in the store, never pending.
C2_TerminalAfterProcessing == RunEnded => \A i \in entered : TerminalRow(i)

SleepsAfter == {sleeps[k].after : k \in 1..Len(sleeps)}

\* C3: the login loop starts at most max_attempts attempts, never sleeps after
\* attempt number max_attempts, and once it has returned no sleep was taken
\* after the last attempt it made.
C3_RetryBound ==
    /\ op_calls <= login_max_attempts
    /\ \A a \in SleepsAfter : a < login_max_attempts
    /\ pc = "LoginReturned" => \A a \in SleepsAfter : a < op_calls

\* C3 witness: the loop returned after all three attempts, two sleeps taken.
C3_Witness ==
    /\ variant = "ai"
    /\ pc = "LoginReturned"
    /\ op_calls = login_max_attempts
    /\ Len(sleeps) = login_max_attempts - 1

FaultedEarly == last_outcome = "exception" /\ op_calls < login_max_attempts

TrueCount(ind) == Cardinality({k \in 1..4 : ind[k]})

\* C5: with all four indicators evaluated, verification reports success
\* exactly when at least 3 of the 4 are true, and that verdict is what the
\* login attempt acts on.
C5_LoginThreshold ==
    last_verify.kind = "verify" =>
        /\ last_verify.verdict <=> TrueCount(last_verify.ind) >= 3
        /\ (last_outcome = "success") <=> last_verify.verdict

\* C5 witness: indicators [true, true, false, false] were reported as failure.
C5_Witness ==
    /\ last_verify.kind = "verify"
    /\ last_verify.ind = << TRUE, TRUE, FALSE, FALSE >>
    /\ ~last_verify.verdict
    /\ last_outcome = "rejected"

Reupserted == last_upsert.kind = "upsert" /\ last_upsert.before # NoRow

\* C6: an upsert of an item_id that already has a row adds no row, keeps the
\* row's created_at and sets its updated_at to the time of the call.
C6_UpsertIdempotent ==
    Reupserted =>
        /\ last_upsert.rows_after = last_upsert.rows_before
        /\ last_upsert.after.created_at = last_upsert.before.created_at
        /\ last_upsert.after.updated_at = last_upsert.at

\* C7: an upsert during discovery of a row that is processed or failed leaves
\* its status and its flags as they were.
C7_DiscoveryKeepsStatus ==
    (Reupserted /\ last_upsert.before.status \in {"processed", "failed"}) =>
        /\ last_upsert.after.status = last_upsert.before.status
        /\ variant = "php" =>
            /\ last_upsert.after.is_public = last_upsert.before.is_public
            /\ last_upsert.after.is_visible = last_upsert.before.is_visible

\* process_listings holds the unconsumed result of get_listings_from_db.
JustLoaded ==
    /\ variant = "php"
    /\ pc \in {"Enumerating", "Processing"}
    /\ Len(db_listings) = total_count

\* C8: the result of get_listings_from_db holds each pending listing once, no
\* other listing, in descending created_at order.
C8_GetPendingExact ==
    JustLoaded =>
        /\ {db_listings[k] : k \in 1..Len(db_listings)} =
               {i \in DOMAIN listings : listings[i].status = "pending"}
        /\ \A a, b \in 1..Len(db_listings) :
               a < b => /\ db_listings[a] # db_listings[b]
                        /\ listings[db_listings[a]].created_at >=
                               listings[db_listings[b]].created_at

\* The counts behind the reported success rate, taken from the store.
StoreTotal ==
    IF variant = "php" THEN Cardinality(DOMAIN listings)
    ELSE Cardinality(DOMAIN ai_listings)
StorePublic ==
    IF variant = "php"
    THEN Cardinality({i \in DOMAIN listings : listings[i].is_public})
    ELSE Cardinality({i \in DOMAIN ai_listings :
                         ai_listings[i].status = "processed"})
Reported == stats.kind # "none"

\* C9 as stated: the reported success rate is public / total, within [0, 1],
\* and 0 for an empty store.
C9_SuccessRateFraction ==
    Reported =>
        /\ stats.success_rate.num * StoreTotal =
               StorePublic * stats.success_rate.den
        /\ 0 <= stats.success_rate.num
        /\ stats.success_rate.num <= stats.success_rate.den
        /\ StoreTotal = 0 => stats.success_rate.num = 0

\* C9 amended: the reported success rate is the percentage public / total *
\* 100, within [0, 100], and 0 for an empty store.
C9_SuccessRatePercent ==
    Reported =>
        /\ stats.success_rate.den > 0
        /\ stats.success_rate.num * StoreTotal =
               percent * StorePublic * stats.success_rate.den
        /\ 0 <= stats.success_rate.num
        /\ stats.success_rate.num <= percent * stats.success_rate.den
        /\ StoreTotal = 0 => stats.success_rate.num = 0

\* C9 witness: one of two listings is public and the reported rate is 50.
C9_Witness ==
    /\ Reported
    /\ StoreTotal = 2
    /\ StorePublic = 1
    /\ stats.success_rate = [num |-> percent, den |-> 2]

\* A php run loaded a store of n >= 1 rows, all pending, and reported.
ProcessedAllPending ==
    variant = "php" /\ stats.kind = "stats" /\ load_all_pending

\* C10 as stated: after a run over n pending listings with k successes the
\* stats are total n, public k, pending 0 and success rate k / n.
C10_StatsAfterRun ==
    ProcessedAllPending =>
        /\ stats.total_listings = total_count
        /\ stats.public_listings = success_count
        /\ stats.pending_listings = 0
        /\ stats.success_rate.num * total_count =
               success_count * stats.success_rate.den

\* C10 amended: the same counts, with success rate k / n * 100.
C10_StatsAfterRunPercent ==
    ProcessedAllPending =>
        /\ stats.total_listings = total_count
        /\ stats.public_listings = success_count
        /\ stats.pending_listings = 0
        /\ stats.success_rate.num * total_count =
               percent * success_count * stats.success_rate.den

\* C10 witness: A = 1 older than B = 2, so loaded as [B, A]; A failed, B
\* succeeded; stats are total 2, public 1, pending 0, rate 50.
C10_Witness ==
    /\ ProcessedAllPending
    /\ DOMAIN listings = {1, 2}
    /\ listings[1].created_at < listings[2].created_at
    /\ listings[1].status = "failed"
    /\ listings[2].status = "processed"
    /\ total_count = 2
    /\ success_count = 1
    /\ stats.total_listings = 2
    /\ stats.public_listings = 1
    /\ stats.pending_listings = 0
    /\ stats.success_rate = [num |-> percent, den |-> 2]

\* C11: a status update for an item_id that has no row fails with
\* NotFoundError, handed to the caller, and leaves the store as it was.
C11_UpdateAbsentFails ==
    (last_update.kind = "update" /\ ~last_update.existed) =>
        /\ last_update.returned = "NotFoundError"
        /\ last_update.unchanged

Occurrences(seq, e) == Cardinality({k \in DOMAIN seq : seq[k] = e})

\* The pushes to the Reporting Sink that tell the outcome of a listing.
StatusNotifications == {"update_php_dashboard", "log_to_php:result"}

\* C12: one listing pass makes exactly one status UPDATE, and every
\* notification of the outcome to the Reporting Sink comes after it.
C12_OneWriteThenNotify ==
    last_listing.kind = "listing" =>
        /\ Occurrences(last_listing.events, "UPDATE") = 1
        /\ \A j \in DOMAIN last_listing.events :
               last_listing.events[j] \in StatusNotifications =>
                   \E i \in 1..(j - 1) : last_listing.events[i] = "UPDATE"

WorkQueue == IF variant = "php" THEN db_listings ELSE collected
DonePc == IF variant = "php" THEN "Stats" ELSE "Report"
StoreTable == IF variant = "php" THEN listings ELSE ai_listings

\* C13: a listing pass that ends in success or failure takes the head of the
\* queue, leaves the rest of the queue to be processed next (the loop is left
\* only when the queue is empty), does not abort the run, and records a
\* failure as status failed.
C13_AdvancesAfterListing ==
    [][(/\ pc = "Processing"
        /\ WorkQueue' # WorkQueue
        /\ last_listing'.outcome \in {"saved", "not_saved"}) =>
           /\ WorkQueue' = Tail(WorkQueue)
           /\ last_listing'.item_id = Head(WorkQueue)
           /\ pc' = IF Tail(WorkQueue) = << >> THEN DonePc ELSE "Processing"
           /\ result' = "none"
           /\ last_listing'.outcome = "not_saved" =>
                  RowOf(StoreTable', Head(WorkQueue)).status = "failed"]_vars

\* C13 witness: a listing failed, its row says failed, and the next listing
\* of the queue is up.
C13_Witness ==
    /\ last_listing.kind = "listing"
    /\ last_listing.outcome = "not_saved"
    /\ RowOf(StoreTable, last_listing.item_id).status = "failed"
    /\ pc = "Processing"
    /\ WorkQueue # << >>
    /\ result = "none"

DriverFaulted ==
    /\ last_listing.kind = "listing"
    /\ last_listing.outcome \in {"fault", "open_fault", "close_fault"}

\* C14: once the driver has faulted in a listing pass the run is on its way
\* out as Aborted: no further listing is opened.
C14_FaultAborts ==
    DriverFaulted => pc \in {"Closing", "Ended"} /\ result = "Aborted"

\* C15: send_to_php hands back True or False and never raises, and the state
\* a listing pass of process_listings leaves is fixed by the state before it
\* and the outcome of make_listing_public alone, whatever the Reporting Sink
\* answered: same status write, same counters, same next position.
C15_SinkFailuresIgnored ==
    [][(/\ variant = "php"
        /\ pc = "Processing"
        /\ (db_listings' # db_listings \/ pc' # pc)) =>
           LET item_id == Head(db_listings)
               success == last_listing'.outcome = "saved"
           IN  /\ last_listing'.sink_returns \subseteq {"True", "False"}
               /\ listings' = update_listing_in_db(listings, item_id,
                                  StatusUpdates(success), now)
               /\ entered' = entered \cup {item_id}
               /\ db_listings' = Tail(db_listings)
               /\ success_count' = success_count + (IF success THEN 1 ELSE 0)
               /\ total_count' = total_count
               /\ pc' = IF Tail(db_listings) = << >> THEN "Stats"
                        ELSE "Processing"
               /\ result' = result]_vars

\* C15 witness: every push of a listing pass failed; the listing is recorded
\* processed and the next one is up.
C15_Witness ==
    /\ variant = "php"
    /\ last_listing.kind = "listing"
    /\ last_listing.sink_returns = {"False"}
    /\ last_listing.outcome = "saved"
    /\ listings[last_listing.item_id].status = "processed"
    /\ pc = "Processing"
    /\ db_listings # << >>

\* C16: a run that has not started ends, as Done or as Aborted.
C16_RunTerminates ==
    (pc = "NotStarted") ~> (pc = "Ended" /\ result \in {"Done", "Aborted"})

\* C16 witness: a run that processed listings has ended Done.
C16_Witness ==
    /\ pc = "Ended"
    /\ result = "Done"
    /\ entered # {}

\* C17: an upsert of an item_id that already has a row adds no row and leaves
\* the columns it does not supply, status and created_at among them, as they
\* were.
C17_UpsertMerges ==
    Reupserted =>
        /\ last_upsert.rows_after = last_upsert.rows_before
        /\ last_upsert.after.status = last_upsert.before.status
        /\ last_upsert.after.created_at = last_upsert.before.created_at

Resolved == found # NotCalled

\* C18: the selectors are tried in list order and the element returned from
\* the list is the first that is visible and interactable; the fallback is
\* asked only when no selector gave such an element.
C18_FirstUsableCandidate ==
    Resolved =>
        /\ (found.kind = "element" /\ found.via = "selector") =>
               /\ found.tried = found.index
               /\ page.lookups[found.index] = "usable"
               /\ \A j \in 1..(found.index - 1) : page.lookups[j] # "usable"
        /\ (found.kind = "None" \/ found.via # "selector") =>
               /\ found.tried = Len(page.lookups)
               /\ \A j \in DOMAIN page.lookups : page.lookups[j] # "usable"

\* The driver raised in a call the resolution made.
FaultMet ==
    \/ \E j \in 1..found.tried : page.lookups[j] = "driver_fault"
    \/ /\ found.kind = "None" \/ found.via # "selector"
       /\ \/ page.context = "edit_button" /\ page.edit_text = "driver_fault"
          \/ /\ ~(page.context = "edit_button" /\ page.edit_text = "some")
             /\ page.clickable = "driver_fault"

\* No selector and no fallback query matches anything, and nothing raises.
ElementAbsent ==
    /\ \A j \in DOMAIN page.lookups : page.lookups[j] = "no_such_element"
    /\ page.edit_text = "none"
    /\ page.clickable = "none"
    /\ page.js = "none"

\* C19: the resolution of an absent element returns NotFound, and a driver
\* fault met during the resolution comes out as DriverFault.
C19_FaultPropagates ==
    Resolved =>
        /\ ElementAbsent => found.kind = "None"
        /\ FaultMet => found.kind = "DriverFault"

\* C20: the strategies are called in the order direct edit, audience
\* settings, quick save; the first that returns True makes the pass a success
\* and ends the calls; the pass fails when all three returned False.
C20_StrategyOrder ==
    (/\ variant = "ai"
     /\ last_listing.kind = "listing"
     /\ last_listing.outcome # "open_fault") =>
        LET ret == last_listing.returned
            n == Len(ret)
        IN  /\ n \in 1..Len(StrategyOrder)
            /\ SubSeq(last_listing.events, 2, n + 1) =
                   SubSeq(StrategyOrder, 1, n)
            /\ \A k \in 1..(n - 1) : ~ret[k]
            /\ n < Len(StrategyOrder) => ret[n]
            /\ last_listing.outcome = "saved" => ret[n]
            /\ last_listing.outcome = "not_saved" =>
                   /\ n = Len(StrategyOrder)
                   /\ \A k \in 1..n : ~ret[k]
                   /\ ai_listings[last_listing.item_id].status = "failed"

\* C20 witness: direct edit failed, audience settings saved, quick save was
\* not called; the listing is recorded processed.
C20_Witness ==
    /\ variant = "ai"
    /\ last_listing.kind = "listing"
    /\ last_listing.outcome = "saved"
    /\ last_listing.returned = << FALSE, TRUE >>
    /\ ai_listings[last_listing.item_id].status = "processed"

\* C21: the sleeps the login loop takes between attempts are never negative
\* and never zero, do not decrease from one attempt to the next, and are the
\* base 10 times the number of the attempt they follow.
C21_BackoffMonotone ==
    /\ \A k \in DOMAIN sleeps :
           /\ sleeps[k].secs > 0
           /\ sleeps[k].secs = login_backoff * sleeps[k].after
    /\ \A a, b \in DOMAIN sleeps :
           a < b => /\ sleeps[a].after < sleeps[b].after
                    /\ sleeps[a].secs <= sleeps[b].secs

\* C21 witness: 10 s were slept after the first attempt and 20 s after the
\* second.
C21_Witness ==
    /\ Len(sleeps) = 2
    /\ sleeps[1] = [after |-> 1, secs |-> login_backoff]
    /\ sleeps[2] = [after |-> 2, secs |-> 2 * login_backoff]

\* C22: a failed write of an audit entry does not change what the run does.
\* scanner.py: a listing pass whose record_decision met a database error has
\* written the status of its outcome and stands where the queue puts it, and
\* a login whose verification succeeded is a success whatever the insert of
\* its decision record met. main.py: a listing pass one of whose log pushes
\* failed has made its status write and stands where the queue puts it.
C22_LogFailureSwallowed ==
    /\ (variant = "ai" /\ last_listing.kind = "listing"
            /\ last_listing.log_failed) =>
           /\ last_listing.log = "None"
           /\ ai_listings[last_listing.item_id].status =
                  RecordedStatus(last_listing.outcome)
           /\ pc = IF collected = << >> THEN "Report" ELSE "Processing"
           /\ result = "none"
    /\ (last_verify.kind = "verify" /\ last_verify.verdict) =>
           /\ last_outcome = "success"
           /\ login_ret
           /\ pc = "LoginReturned"
    /\ (variant = "php" /\ last_listing.kind = "listing"
            /\ "False" \in last_listing.sink_returns) =>
           /\ "raise" \notin last_listing.sink_returns
           /\ Occurrences(last_listing.events, "UPDATE") = 1
           /\ listings[last_listing.item_id].status \in {"processed", "failed"}
           /\ pc = IF db_listings = << >> THEN "Stats" ELSE "Processing"
           /\ result = "none"

\* C22 witness: the decision record of a saved listing could not be written;
\* the listing is recorded processed and the next one is up.
C22_Witness ==
    /\ variant = "ai"
    /\ last_listing.kind = "listing"
    /\ last_listing.log_failed
    /\ last_listing.outcome = "saved"
    /\ ai_listings[last_listing.item_id].status = "processed"
    /\ pc = "Processing"
    /\ collected # << >>

\* C23: the process exits with status 0 when the run ended Done and with a
\* non-zero status when it ended Aborted.
C23_ExitStatus ==
    RunEnded =>
        /\ result = "Done" => exit_status(result) = 0
        /\ result = "Aborted" => exit_status(result) # 0

\* The item ids get_marketplace_listings collected in this run.
Discovered == {collected[k] : k \in DOMAIN collected}

\* C24: a run of main.py that found nothing to load and enumerated n >= 1
\* listings has left each of them with a row and has handed each of them to
\* make_listing_public before it ended: the set processed is the set
\* discovered.
C24_DiscoveredAreProcessed ==
    (variant = "php" /\ RunEnded /\ result = "Done" /\ collected # << >>) =>
        /\ Discovered \subseteq DOMAIN listings
        /\ entered = Discovered

\* C25: a login attempt that ended in a recoverable failure (verification
\* said no, nothing raised) with fewer than max_attempts attempts made is
\* followed by another attempt.
C25_RejectedLoginRetried ==
    (last_outcome = "rejected" /\ op_calls < login_max_attempts) =>
        pc = "DriverReady"

\* C26: what a run of main.py loads for processing holds no listing that an
\* earlier run left processed or failed, and a run of scanner.py hands no
\* listing to processing whose row an earlier run left processed or failed.
C26_OnlyPendingResumed ==
    /\ JustLoaded =>
           \A k \in DOMAIN db_listings :
               listings[db_listings[k]].status \notin {"processed", "failed"}
    /\ (variant = "ai" /\ pc = "Discovering" /\ Reupserted) =>
           last_upsert.before.status \notin {"processed", "failed"}

\* C27: the steps of a run come in order: login is attempted only on an
\* acquired driver session; listings are discovered, opened and written, and
\* statistics reported, only after login returned success in the same run; a
\* run whose driver did not start or whose login failed ends Aborted.
C27_LifecycleOrder ==
    /\ (pc \in {"DriverReady", "LoginReturned"} \/ op_calls > 0) => driver = "live"
    /\ pc \in {"LoggedIn", "Enumerating", "Discovering", "Processing", "Stats", "Report"}
           => login_ret
    /\ (\/ entered # {}
        \/ collected # << >>
        \/ db_listings # << >>
        \/ stats # NoStats
        \/ last_upsert # NoUpsert
        \/ last_listing # NoListing) => login_ret
    /\ (pc \in {"Closing", "Ended"} /\ ~login_ret) => result = "Aborted"
    /\ (pc = "Ended" /\ driver = "none") => result = "Aborted"

C27_Witness ==
    /\ pc = "Ended"
    /\ ~login_ret
    /\ driver = "quit"
    /\ result = "Aborted"
    /\ entered = {}
    /\ stats = NoStats

\* C28: a listing pass writes to the row of the listing it processes and to
\* no other: the table keeps its rows, every other row keeps every field, and
\* the processed row keeps its created_at; what changes in it is its status,
\* the flags supplied with the status, and updated_at, set to the current time.
C28_UpdateFrame ==
    [][(pc = "Processing" /\ WorkQueue # << >>) =>
          LET i == Head(WorkQueue)
          IN  /\ DOMAIN StoreTable' = DOMAIN StoreTable
              /\ \A j \in DOMAIN StoreTable :
                     IF j = i
                     THEN /\ StoreTable'[j].created_at = StoreTable[j].created_at
                          /\ StoreTable'[j] # StoreTable[j] =>
                                 /\ StoreTable'[j].updated_at = now
                                 /\ StoreTable'[j].status \in {"processed", "failed"}
                     ELSE StoreTable'[j] = StoreTable[j]]_vars

C28_Witness ==
    /\ variant = "ai"
    /\ last_listing.kind = "listing"
    /\ last_listing.item_id \in DOMAIN ai_listings
    /\ ai_listings[last_listing.item_id].status = "failed"
    /\ \E j \in DOMAIN ai_listings \ {last_listing.item_id} :
           ai_listings[j].status = "pending"

\* C29: listings are processed one at a time: when a listing pass has run,
\* every other listing that entered processing before it in this run already
\* has its terminal status (processed or failed) in the store.
C29_OneInFlight ==
    (last_listing.kind = "listing" /\ pc \in {"Processing", DonePc}) =>
        \A i \in entered \ {last_listing.item_id} : TerminalRow(i)

\* C30: in a listing pass of scanner.py a strategy that returned False was
\* called as many times as the listing policy allows (max_attempts = 2)
\* before the next strategy was called or the pass gave up.
C30_StrategyRetried ==
    (variant = "ai" /\ last_listing.kind = "listing") =>
        \A k \in DOMAIN last_listing.returned :
            ~last_listing.returned[k] =>
                Occurrences(last_listing.events, StrategyOrder[k])
                    = listing_max_attempts

\* C31: whenever login has returned success, in main.py as in scanner.py, a
\* verification over the four indicators stands behind it: at least 0.6 of
\* them agreed, and more than one of them.
C31_LoginNeedsMajority ==
    (pc = "LoginReturned" /\ login_ret) =>
        /\ last_verify.kind = "verify"
        /\ MeetsThreshold(TrueCount(last_verify.ind), 4)
        /\ TrueCount(last_verify.ind) > 1

\* C32: when attempt_save reports a save (the return value that makes the
\* listing processed), the element it clicked was found by one of the save
\* selectors, not handed over by the fallback as some other control.
C32_SaveClicked ==
    (found # NotCalled /\ page.context = "save_button" /\ attempt_save(page)) =>
        /\ found.kind = "element"
        /\ found.via = "selector"

\* C33: within one run an item_id enters processing once at most: the
\* listing the processing loop takes next has not entered processing before
\* in this run, also when the page showed several anchors of one item.
C33_EntersOnce ==
    (pc = "Processing" /\ WorkQueue # << >>) => Head(WorkQueue) \notin entered

\* C34: after a successful login, when the store is empty and the
\* enumeration of the page has ended with nothing collected, the run goes on
\* to its report (statistics, then Done); it is not ended as Aborted.
C34_EmptyRunCompletes ==
    [][(/\ login_ret
        /\ pc = "Discovering"
        /\ ui_queue = << >>
        /\ collected = << >>
        /\ StoreTable = EmptyTable)
       => /\ pc' \in {"Discovering", DonePc}
          /\ result' # "Aborted"]_vars

\* C35: when a listing pass of scanner.py has returned, whatever its outcome,
\* the tab it opened is closed and the driver is on the main window: no
\* window state the outcome allows has a tab left or the focus elsewhere.
C35_OneWindowBetweenListings ==
    (variant = "ai" /\ last_listing.kind = "listing") =>
        \A w \in WindowsAfter(last_listing.outcome) :
            /\ w.tabs_left = 0
            /\ w.focus = "main"

\* Indexes a listing can have in the loop when its pass raises, some of them
\* beyond the threshold.
ErrorIndexes == 0 .. (error_index_threshold + MaxUI)

\* C36: while scanner.py processes listings, the early stop is open to it:
\* there is an index at which an error raised by a listing pass makes the
\* decision policy answer take_break and the loop stop.
C36_EarlyStopReachable ==
    (variant = "ai" /\ pc = "Processing" /\ collected # << >>) =>
        \E i \in ErrorIndexes : cautious_on_error(i) = "break"

====
